---- MODULE Spec2Model ----
(***************************************************************************)
(* Model of Headless::Logic::GA::Trivial<C> (the "trivial" genetic         *)
(* algorithm engine) and of the collaborators of its example program.      *)
(* Arrays are functions over 0..n-1, as in the source.  A candidate is a   *)
(* handle (a heap object) whose content is a scalar; scores are integers,  *)
(* with Infinity standing for the double +inf.                             *)
(***************************************************************************)
EXTENDS Integers, Sequences, FiniteSets, TLC

\* ---- bounds of the model ------------------------------------------------
MaxCount == 2
MaxSortCount == 4
MaxValue == 2
MaxGen == 2
MaxSize == 1
EliteDen == 2
DrawRes == 2
MaxStrategies == 2
UIntBits == 16
Threads == 2

\* ---- values -------------------------------------------------------------
\* Target scalar of the environment (Environment::_goal).
Goal == 0

\* unsigned int arithmetic wraps modulo 2^w.  The word is narrowed to
\* UIntBits bits (the model checker's integers are 32-bit signed); every
\* index stays far below 2^UIntBits, so the wrap of lo - 1 and of
\* hi - (pivot + 1) is the one the 32-bit word shows.
UIntMod == 2 ^ UIntBits

\* Marker of a memory cell that was never written.
Uninit == 0 - 1

Values == 0 .. MaxValue

Abs(x) == IF x < 0 THEN 0 - x ELSE x

\* Environment::evaluate: the distance between the goal and the candidate.
evaluate(c) == Abs(Goal - c)

MaxScore == IF Goal > MaxValue - Goal THEN Goal ELSE MaxValue - Goal

\* +infinity: a double greater than every score.
Infinity == MaxScore + 1

\* What an uninitialised double may hold.
AnyDouble == 0 .. MaxScore

Handles(n) == 1 .. n

Idx(n) == 0 .. (n - 1)

\* ---- the ranker: Trivial::qsort / Trivial::partition --------------------
\* A read of _score[i]; outside the array the scan stops on whatever is there.
ReadScore(s, i, pivot) == IF i \in DOMAIN s THEN s[i] ELSE pivot

\* do { ++i; } while(_score[i] < pivot);
RECURSIVE scanUp(_, _, _)
scanUp(s, i, pivot) ==
    LET n == (i + 1) % UIntMod
    IN  IF ReadScore(s, n, pivot) < pivot THEN scanUp(s, n, pivot) ELSE n

\* do { --j; } while(_score[j] > pivot);
RECURSIVE scanDown(_, _, _)
scanDown(s, j, pivot) ==
    LET n == (j - 1) % UIntMod
    IN  IF ReadScore(s, n, pivot) > pivot THEN scanDown(s, n, pivot) ELSE n

\* The indices at which the upward scan reads _score.
RECURSIVE scanUpReads(_, _, _)
scanUpReads(s, i, pivot) ==
    LET n == (i + 1) % UIntMod
    IN  IF ReadScore(s, n, pivot) < pivot
        THEN {n} \cup scanUpReads(s, n, pivot)
        ELSE {n}

\* The indices at which the downward scan reads _score.
RECURSIVE scanDownReads(_, _, _)
scanDownReads(s, j, pivot) ==
    LET n == (j - 1) % UIntMod
    IN  IF ReadScore(s, n, pivot) > pivot
        THEN {n} \cup scanDownReads(s, n, pivot)
        ELSE {n}

\* An exchange that moves the scores and leaves the handles in place.
exchangeScoreOnly(st, i, j) ==
    [score |-> [st.score EXCEPT ![i] = st.score[j], ![j] = st.score[i]],
     pool  |-> st.pool]

\* An exchange without the temporary: position j keeps its own handle, so
\* the handle of position i is lost and that of position j is held twice.
exchangeNoTemp(st, i, j) ==
    [score |-> [st.score EXCEPT ![i] = st.score[j], ![j] = st.score[i]],
     pool  |-> [st.pool  EXCEPT ![i] = st.pool[j]]]

\* The exchange of positions i and j: score and handle move together.
exchange(st, i, j) ==
    [score |-> [st.score EXCEPT ![i] = st.score[j], ![j] = st.score[i]],
     pool  |-> [st.pool  EXCEPT ![i] = st.pool[j],  ![j] = st.pool[i]]]

\* A partition loop that returns the upward index: if(i >= j) return i.
RECURSIVE partitionLoopReturnsI(_, _, _, _)
partitionLoopReturnsI(st, i, j, pivot) ==
    LET i2 == scanUp(st.score, i, pivot)
        j2 == scanDown(st.score, j, pivot)
    IN  IF i2 >= j2
        THEN [p |-> i2, score |-> st.score, pool |-> st.pool]
        ELSE partitionLoopReturnsI(exchange(st, i2, j2), i2, j2, pivot)

\* for(;;) { scan up; scan down; if(i >= j) return j; exchange; }
RECURSIVE partitionLoop(_, _, _, _)
partitionLoop(st, i, j, pivot) ==
    LET i2 == scanUp(st.score, i, pivot)
        j2 == scanDown(st.score, j, pivot)
    IN  IF i2 >= j2
        THEN [p |-> j2, score |-> st.score, pool |-> st.pool]
        ELSE partitionLoop(exchange(st, i2, j2), i2, j2, pivot)

\* The indices the scans of the partition loop read, over all its rounds.
RECURSIVE partitionReads(_, _, _, _)
partitionReads(st, i, j, pivot) ==
    LET i2 == scanUp(st.score, i, pivot)
        j2 == scanDown(st.score, j, pivot)
        rd == scanUpReads(st.score, i, pivot)
                 \cup scanDownReads(st.score, j, pivot)
    IN  IF i2 >= j2
        THEN rd
        ELSE rd \cup partitionReads(exchange(st, i2, j2), i2, j2, pivot)

\* A partition whose downward scan starts at hi - 1 (j = hi in place of
\* j = hi + 1): the last element of the range is never looked at.
partitionFromHi(st, lo, hi) ==
    partitionLoop(st, (lo - 1) % UIntMod, hi, st.score[lo])

\* unsigned i = lo - 1, j = hi + 1; pivot = _score[lo].
partition(st, lo, hi) ==
    partitionLoop(st, (lo - 1) % UIntMod, (hi + 1) % UIntMod, st.score[lo])

\* An order test turned round: the larger sub-range goes first.
leftFirstInverted(lo, pv, hi) ==
    ((pv - lo) % UIntMod) > ((hi - (pv + 1)) % UIntMod)

\* Line 185: if((pivot - lo) < (hi - (pivot + 1))), in unsigned arithmetic.
leftFirst(lo, pv, hi) ==
    ((pv - lo) % UIntMod) < ((hi - (pv + 1)) % UIntMod)

RECURSIVE qsort(_, _, _)
qsort(st, lo, hi) ==
    IF lo < hi
    THEN LET r  == partition(st, lo, hi)
             pv == r.p
             s1 == [score |-> r.score, pool |-> r.pool]
         IN  IF leftFirst(lo, pv, hi)
             THEN qsort(qsort(s1, lo, pv), pv + 1, hi)
             ELSE qsort(qsort(s1, pv + 1, hi), lo, pv)
    ELSE st

\* The levels of the recursion of qsort(lo, hi): for each call that
\* partitions, its range, the first element of the range at the call, the
\* scores the partition left, the split point, and the sub-ranges in the
\* order of the two recursive calls.
RECURSIVE qsortLevels(_, _, _)
qsortLevels(st, lo, hi) ==
    IF lo < hi
    THEN LET r  == partition(st, lo, hi)
             pv == r.p
             s1 == [score |-> r.score, pool |-> r.pool]
             a  == IF leftFirst(lo, pv, hi)
                   THEN <<lo, pv>> ELSE <<pv + 1, hi>>
             b  == IF leftFirst(lo, pv, hi)
                   THEN <<pv + 1, hi>> ELSE <<lo, pv>>
             s2 == qsort(s1, a[1], a[2])
         IN  {[lo |-> lo, hi |-> hi, head |-> st.score[lo],
               split |-> r.score, p |-> pv, first |-> a, second |-> b]}
                 \cup qsortLevels(s1, a[1], a[2])
                 \cup qsortLevels(s2, b[1], b[2])
    ELSE {}

\* ---- the strategy cascade: Trivial::mutate ------------------------------
\* A cascade that compares with rnd <= threshold.
RECURSIVE mutateInclusive(_, _, _)
mutateInclusive(ths, draws, k) ==
    IF k = Len(ths)
    THEN k
    ELSE IF draws[k] <= ths[k] THEN k ELSE mutateInclusive(ths, draws, k + 1)

\* A cascade that applies a mutator only when rnd is a whole step below its
\* threshold.
RECURSIVE mutateExclusive(_, _, _)
mutateExclusive(ths, draws, k) ==
    IF k = Len(ths)
    THEN k
    ELSE IF draws[k] + 1 < ths[k] THEN k ELSE mutateExclusive(ths, draws, k + 1)

\* ths: the thresholds of the mutators in call order (1-based); draws: the
\* value of rnd at each level.  The result is the mutator that is applied.
RECURSIVE mutate(_, _, _)
mutate(ths, draws, k) ==
    IF k = Len(ths)
    THEN k
    ELSE IF draws[k] < ths[k] THEN k ELSE mutate(ths, draws, k + 1)

\* ---- elite bookkeeping of Trivial::train --------------------------------
\* The product rounded to the nearest integer instead of truncated.
EliteCountRounded(n, num) == (2 * n * num + EliteDen) \div (2 * EliteDen)

\* unsigned int eliteCount = _count * eliteSize, eliteSize = num / EliteDen.
EliteCountOf(n, num) == (n * num) \div EliteDen

\* for(i = 0; i < eliteCount; ++i) { _reverse[eliteCount - i] = _score[i];
\*                                   totalScore += _score[i]; }
RECURSIVE reverseLoop(_, _, _, _)
reverseLoop(i, ec, sc, acc) ==
    IF i < ec
    THEN LET k == ec - i
         IN  reverseLoop(i + 1, ec, sc,
                [reverse |-> IF k \in DOMAIN acc.reverse
                             THEN [acc.reverse EXCEPT ![k] = sc[i]]
                             ELSE acc.reverse,
                 total   |-> acc.total + sc[i],
                 oob     |-> acc.oob \/ (k \notin DOMAIN acc.reverse)])
    ELSE acc

\* A recombination loop that starts at slot 0.
FirstRecycledFromZero(ec) == 0

\* A recombination loop that starts one slot early.
FirstRecycledOffByOne(ec) == IF ec > 0 THEN ec - 1 ELSE 0

\* The first slot of the recombination loop.
FirstRecycled(ec) == ec

\* The count without the clamp to the caller's buffer.
resultCountUnclamped(ec, n) == ec

\* Line 122: number = eliteCount < size ? eliteCount : size.
resultCount(ec, n) == IF ec < n THEN ec ELSE n

\* What "#pragma omp parallel for" would be with a nowait clause: the code
\* after the loop starts while iterations are still pending.
joinedNoWait(pending) == TRUE

\* Lines 163 and 115: "#pragma omp parallel for" ends with an implicit
\* barrier (without the pragma the loop is a sequential for): the statement
\* after the loop runs once no iteration is pending.
joined(pending) == pending = {}

\* An error test with the comparison turned round.
AboveErrorInverted(m, err) == m < err

\* The loop condition's error test: (minimum = evaluate(env)) > minErr.
AboveError(m, err) == m > err

\* ---- the state of one run of Trivial::train ------------------------------
VARIABLES
    pc,          \* position of the run in train
    count,       \* _count
    pool,        \* _pool: index -> handle
    score,       \* _score
    reverse,     \* _reverse
    content,     \* the heap: handle -> content of the candidate
    maxGen, minErr, eliteSize, size, visitor, mutators,   \* arguments of train
    eliteCount, generation, minimum, totalScore, number,  \* locals of train
    store,       \* the caller's result buffer
    toEvaluate,  \* iterations of evaluate's parallel loop still to run
    toMutate,    \* iterations of the recombination loop still to run
    cloned,      \* the extraction loop's i
    calls,       \* number of calls made to each collaborator operation
    passes,      \* number of returns of evaluate(env)
    firstBest,   \* _score[0] at the first return of evaluate(env)
    prevBest,    \* _score[0] at the previous return of evaluate(env)
    lastMutate,  \* the latest cascade: slot, draws made, mutator applied
    result,      \* the tuple train returned
    active,      \* recombination workers that are inside a mutator
    picked,      \* the latest parent selection of an example mutator
    oob,         \* a write fell outside the allocated capacity
    caller       \* main after train: its loop, entries read, entries freed

vars == <<pc, count, pool, score, reverse, content, maxGen, minErr, eliteSize,
          size, visitor, mutators, eliteCount, generation, minimum,
          totalScore, number, store, toEvaluate, toMutate, cloned, calls,
          passes, firstBest, prevBest, lastMutate, result, active, picked,
          oob, caller>>

args == <<maxGen, minErr, eliteSize, size, visitor, mutators>>

NoCalls == [reserve |-> 0, release |-> 0, evaluate |-> 0, visit |-> 0,
            mutate |-> 0, clone |-> 0]

NoResult == [generation |-> Uninit, minimum |-> Uninit, number |-> Uninit]

NoPick == [slot |-> Uninit, parents |-> {}]

NoCaller == [phase |-> "print", shown |-> {}, freed |-> {}]

NoMutate == [slot |-> Uninit, draws |-> << >>, applied |-> 0]

\* Sequences of thresholds, one per mutator, in units of 1 / DrawRes.
ThresholdLists ==
    UNION {[1 .. n -> 0 .. DrawRes] : n \in 1 .. MaxStrategies}

\* The engine after Trivial(pSize), and the arguments the caller will pass.
InitWith(Counts, Gens, Errs, Elites, Sizes, Visitors, Mutators) ==
    /\ pc = "start"
    /\ count \in Counts
    /\ pool = [i \in Idx(count) |-> Uninit]
    /\ score = [i \in Idx(count) |-> Uninit]
    /\ reverse = [i \in Idx(count) |-> Uninit]
    /\ content = << >>
    /\ maxGen \in Gens
    /\ minErr \in Errs
    /\ eliteSize \in Elites
    /\ size \in Sizes
    /\ visitor \in Visitors
    /\ mutators \in Mutators
    /\ eliteCount = Uninit
    /\ generation = Uninit
    /\ minimum = Uninit
    /\ totalScore = Uninit
    /\ number = Uninit
    /\ store = [i \in Idx(size) |-> Uninit]
    /\ toEvaluate = {}
    /\ toMutate = {}
    /\ cloned = 0
    /\ calls = NoCalls
    /\ passes = 0
    /\ firstBest = Uninit
    /\ prevBest = Uninit
    /\ lastMutate = NoMutate
    /\ result = NoResult
    /\ active = {}
    /\ picked = NoPick
    /\ oob = FALSE
    /\ caller = NoCaller

\* Two mutators: the first is applied on the lowest draw only, the second is
\* the fallback.
TwoMutators == <<1, DrawRes>>

Init ==
    InitWith(1 .. MaxCount, 0 .. MaxGen, {0, Infinity}, 0 .. EliteDen,
             {1}, {TRUE}, {TwoMutators})

\* Runs of larger populations, all of whose slots but at most one are elite,
\* for the ranker.
InitSort ==
    InitWith(1 .. MaxSortCount, {MaxGen}, {0}, {EliteDen - 1, EliteDen},
             {1}, {TRUE}, {TwoMutators})

\* Runs of a population of two over every list of mutators.
InitCascade ==
    InitWith({2}, {1}, {0}, {0, EliteDen}, {1}, {TRUE}, ThresholdLists)

\* env->reserve(_pool, eliteCount): only the elite would be allocated.
ReserveElite ==
    /\ pc = "start"
    /\ eliteCount' = EliteCountOf(count, eliteSize)
    /\ pool' = [i \in Idx(count) |-> IF i < eliteCount' THEN i + 1 ELSE Uninit]
    /\ content' \in [Handles(eliteCount') -> Values]
    /\ generation' = 0
    /\ calls' = [calls EXCEPT !.reserve = @ + 1]
    /\ pc' = "loop"
    /\ UNCHANGED <<count, score, reverse, args, minimum, totalScore, number,
                   store, toEvaluate, toMutate, cloned, passes, prevBest,
                   lastMutate, result, oob, active, picked, firstBest, caller>>

\* ---- train, one step at a time ------------------------------------------
\* Lines 93-100: eliteCount, env->reserve(_pool, _count), generation = 0.
\* Environment::reserve stores one new candidate of random content per slot.
Reserve ==
    /\ pc = "start"
    /\ eliteCount' = EliteCountOf(count, eliteSize)
    /\ pool' = [i \in Idx(count) |-> i + 1]
    /\ content' \in [Handles(count) -> Values]
    /\ generation' = 0
    /\ calls' = [calls EXCEPT !.reserve = @ + 1]
    /\ pc' = "loop"
    /\ UNCHANGED <<count, score, reverse, args, minimum, totalScore, number,
                   store, toEvaluate, toMutate, cloned, passes, prevBest,
                   lastMutate, result, oob, active, picked, firstBest, caller>>

\* Line 101, left operand: generation < maxGen.  When it holds evaluate(env)
\* is entered, otherwise the loop is left.
LoopTest ==
    /\ pc = "loop"
    /\ IF generation < maxGen
       THEN /\ pc' = "evaluate"
            /\ toEvaluate' = Idx(count)
            /\ prevBest' = IF passes > 0 THEN score[0] ELSE Uninit
       ELSE /\ pc' = "extract"
            /\ UNCHANGED <<toEvaluate, prevBest>>
    /\ UNCHANGED <<count, pool, score, reverse, content, args, eliteCount,
                   generation, minimum, totalScore, number, store, toMutate,
                   cloned, calls, passes, lastMutate, result, oob, active,
                   picked, firstBest, caller>>

\* An evaluate loop of stride 2 (i += 2): the slot after the evaluated one
\* is passed over.
EvaluateOneSkipping ==
    /\ pc = "evaluate"
    /\ \E i \in toEvaluate :
          /\ score' = [score EXCEPT ![i] = evaluate(content[pool[i]])]
          /\ toEvaluate' = toEvaluate \ {i, i + 1}
    /\ calls' = [calls EXCEPT !.evaluate = @ + 1]
    /\ UNCHANGED <<pc, count, pool, reverse, content, args, eliteCount,
                   generation, minimum, totalScore, number, store, toMutate,
                   cloned, passes, prevBest, lastMutate, result, oob, active,
                   picked, firstBest, caller>>

\* Lines 163-166: one iteration of the parallel loop of evaluate.
EvaluateOne ==
    /\ pc = "evaluate"
    /\ \E i \in toEvaluate :
          /\ score' = [score EXCEPT ![i] = evaluate(content[pool[i]])]
          /\ toEvaluate' = toEvaluate \ {i}
    /\ calls' = [calls EXCEPT !.evaluate = @ + 1]
    /\ UNCHANGED <<pc, count, pool, reverse, content, args, eliteCount,
                   generation, minimum, totalScore, number, store, toMutate,
                   cloned, passes, prevBest, lastMutate, result, oob, active,
                   picked, firstBest, caller>>

\* Lines 169-171 and the assignment of line 101: the pool is sorted and
\* _score[0] is returned into minimum.
EvaluateReturn ==
    /\ pc = "evaluate"
    /\ joined(toEvaluate)
    /\ LET st == qsort([score |-> score, pool |-> pool], 0,
                       (count - 1) % UIntMod)
       IN  /\ score' = st.score
           /\ pool' = st.pool
           /\ minimum' = st.score[0]
    /\ passes' = passes + 1
    /\ firstBest' = IF passes = 0
                    THEN qsort([score |-> score, pool |-> pool], 0,
                               (count - 1) % UIntMod).score[0]
                    ELSE firstBest
    /\ pc' = "ranked"
    /\ UNCHANGED <<count, reverse, content, args, eliteCount, generation,
                   totalScore, number, store, toEvaluate, toMutate, cloned,
                   calls, prevBest, lastMutate, result, oob, active, picked,
                   caller>>

\* Line 101, right operand: minimum > minErr.
ErrorTest ==
    /\ pc = "ranked"
    /\ pc' = IF AboveError(minimum, minErr) THEN "weights" ELSE "extract"
    /\ UNCHANGED <<count, pool, score, reverse, content, args, eliteCount,
                   generation, minimum, totalScore, number, store,
                   toEvaluate, toMutate, cloned, calls, passes, prevBest,
                   lastMutate, result, oob, active, picked, firstBest, caller>>

\* Lines 105-109: the reverse score board and the total score.
Weights ==
    /\ pc = "weights"
    /\ LET r == reverseLoop(0, eliteCount, score,
                            [reverse |-> reverse, total |-> 0, oob |-> oob])
       IN  /\ reverse' = r.reverse
           /\ totalScore' = r.total
           /\ oob' = r.oob
    /\ pc' = "visit"
    /\ UNCHANGED <<count, pool, score, content, args, eliteCount, generation,
                   minimum, number, store, toEvaluate, toMutate, cloned,
                   calls, passes, prevBest, lastMutate, result, active,
                   picked, firstBest, caller>>

\* The write _reverse[eliteCount - i] of line 107 falls outside the buffer
\* when eliteCount = _count: undefined behaviour, which either goes unnoticed
\* (Weights) or ends the process here.
WeightsAbort ==
    /\ pc = "weights"
    /\ reverseLoop(0, eliteCount, score,
                   [reverse |-> reverse, total |-> 0, oob |-> oob]).oob
    /\ oob' = TRUE
    /\ pc' = "aborted"
    /\ UNCHANGED <<count, pool, score, reverse, content, args, eliteCount,
                   generation, minimum, totalScore, number, store,
                   toEvaluate, toMutate, cloned, calls, passes, prevBest,
                   lastMutate, result, active, picked, firstBest, caller>>

\* The visit without the test of line 111: the visitor is called even when
\* it is null.
VisitUnguarded ==
    /\ pc = "visit"
    /\ calls' = [calls EXCEPT !.visit = @ + 1]
    /\ toMutate' = FirstRecycled(eliteCount) .. (count - 1)
    /\ lastMutate' = NoMutate
    /\ pc' = "mutate"
    /\ UNCHANGED <<count, pool, score, reverse, content, args, eliteCount,
                   generation, minimum, totalScore, number, store,
                   toEvaluate, cloned, passes, prevBest, result, oob, active,
                   picked, firstBest, caller>>

\* Lines 111-116: the visit of the elite, then the recombination loop starts.
Visit ==
    /\ pc = "visit"
    /\ calls' = IF visitor THEN [calls EXCEPT !.visit = @ + 1] ELSE calls
    /\ toMutate' = FirstRecycled(eliteCount) .. (count - 1)
    /\ lastMutate' = NoMutate
    /\ pc' = "mutate"
    /\ UNCHANGED <<count, pool, score, reverse, content, args, eliteCount,
                   generation, minimum, totalScore, number, store,
                   toEvaluate, cloned, passes, prevBest, result, oob, active,
                   picked, firstBest, caller>>

\* Lines 116-119 and 137-152: one iteration of the parallel recombination
\* loop.  The cascade picks a mutator, which overwrites *_pool[pos].
Mutate ==
    /\ pc = "mutate"
    /\ \E pos \in toMutate :
       \E draws \in [1 .. (Len(mutators) - 1) -> 0 .. (DrawRes - 1)] :
       \E v \in Values :
          LET m == mutate(mutators, draws, 1)
              made == IF m < Len(mutators) THEN m ELSE Len(mutators) - 1
          IN  /\ content' = [content EXCEPT ![pool[pos]] = v]
              /\ toMutate' = toMutate \ {pos}
              /\ lastMutate' = [slot |-> pos, draws |-> SubSeq(draws, 1, made),
                                applied |-> m]
    /\ calls' = [calls EXCEPT !.mutate = @ + 1]
    /\ UNCHANGED <<pc, count, pool, score, reverse, args, eliteCount,
                   generation, minimum, totalScore, number, store,
                   toEvaluate, cloned, passes, prevBest, result, oob, active,
                   picked, firstBest, caller>>

\* Line 102: ++generation once every slot has been recycled.
NextGeneration ==
    /\ pc = "mutate"
    /\ joined(toMutate)
    /\ generation' = generation + 1
    /\ lastMutate' = NoMutate
    /\ picked' = NoPick
    /\ pc' = "loop"
    /\ UNCHANGED <<count, pool, score, reverse, content, args, eliteCount,
                   minimum, totalScore, number, store, toEvaluate, toMutate,
                   cloned, calls, passes, prevBest, result, oob, active,
                   firstBest, caller>>

\* Line 122: number = eliteCount < size ? eliteCount : size.
Extract ==
    /\ pc = "extract"
    /\ number' = resultCount(eliteCount, size)
    /\ cloned' = 0
    /\ pc' = "clone"
    /\ UNCHANGED <<count, pool, score, reverse, content, args, eliteCount,
                   generation, minimum, totalScore, store, toEvaluate,
                   toMutate, calls, passes, prevBest, lastMutate, result,
                   oob, active, picked, firstBest, caller>>

\* Lines 123-125: store[i] = env->clone(_pool[i]).
Clone ==
    /\ pc = "clone"
    /\ cloned < number
    /\ store' = [store EXCEPT ![cloned] = content[pool[cloned]]]
    /\ cloned' = cloned + 1
    /\ calls' = [calls EXCEPT !.clone = @ + 1]
    /\ UNCHANGED <<pc, count, pool, score, reverse, content, args,
                   eliteCount, generation, minimum, totalScore, number,
                   toEvaluate, toMutate, passes, prevBest, lastMutate,
                   result, oob, active, picked, firstBest, caller>>

\* env->release placed before the loop of lines 123-125.
ReleaseBeforeClones ==
    /\ pc = "clone"
    /\ calls' = [calls EXCEPT !.release = @ + 1]
    /\ \E m \in (IF minimum = Uninit THEN AnyDouble ELSE {minimum}) :
          result' = [generation |-> generation, minimum |-> m,
                     number |-> number]
    /\ pc' = "done"
    /\ UNCHANGED <<count, pool, score, reverse, content, args, eliteCount,
                   generation, minimum, totalScore, number, store,
                   toEvaluate, toMutate, cloned, passes, prevBest,
                   lastMutate, oob, active, picked, firstBest, caller>>

\* Lines 128-130: env->release(_pool, _count) and the returned tuple.  A
\* minimum that was never assigned holds an arbitrary double.
Release ==
    /\ pc = "clone"
    /\ cloned >= number
    /\ calls' = [calls EXCEPT !.release = @ + 1]
    /\ \E m \in (IF minimum = Uninit THEN AnyDouble ELSE {minimum}) :
          result' = [generation |-> generation, minimum |-> m,
                     number |-> number]
    /\ pc' = "done"
    /\ UNCHANGED <<count, pool, score, reverse, content, args, eliteCount,
                   generation, minimum, totalScore, number, store,
                   toEvaluate, toMutate, cloned, passes, prevBest,
                   lastMutate, oob, active, picked, firstBest, caller>>

\* A collaborator call (evaluate, visit, mutate, clone) throws: nothing in
\* train catches, so the exception leaves train at once.  The locals of
\* train go with its frame; the engine's arrays and the heap stay as they are.
Throw ==
    /\ \/ pc = "evaluate" /\ toEvaluate # {}
       \/ pc = "visit" /\ visitor
       \/ pc = "mutate" /\ toMutate # {}
       \/ pc = "clone" /\ cloned < number
    /\ pc' = "failed"
    /\ eliteCount' = Uninit
    /\ generation' = Uninit
    /\ minimum' = Uninit
    /\ totalScore' = Uninit
    /\ number' = Uninit
    /\ toEvaluate' = {}
    /\ toMutate' = {}
    /\ cloned' = 0
    /\ lastMutate' = NoMutate
    /\ active' = {}
    /\ picked' = NoPick
    /\ firstBest' = Uninit
    /\ UNCHANGED <<count, pool, score, reverse, content, args, store, calls,
                   passes, prevBest, result, oob, caller>>

Next ==
    \/ Reserve
    \/ LoopTest
    \/ EvaluateOne
    \/ EvaluateReturn
    \/ ErrorTest
    \/ Weights
    \/ WeightsAbort
    \/ Visit
    \/ Mutate
    \/ NextGeneration
    \/ Extract
    \/ Clone
    \/ Release
    \/ Throw

Spec == Init /\ [][Next]_vars

SpecSort == InitSort /\ [][Next]_vars

SpecCascade == InitCascade /\ [][Next]_vars

\* Runs of a pool of two for the extraction of the results: every elite
\* count against result buffers shorter than, as long as and longer than it.
InitExtract ==
    InitWith({2}, {0, 1}, {0}, 0 .. EliteDen, 0 .. (MaxSize + 1), {TRUE},
             {TwoMutators})

SpecExtract == InitExtract /\ [][Next]_vars

\* Runs of a pool of two over the whole generation budget, with and without
\* a visitor.
InitVisit ==
    InitWith({2}, {MaxGen}, {0}, {EliteDen - 1, EliteDen}, {1}, BOOLEAN,
             {TwoMutators})

SpecVisit == InitVisit /\ [][Next]_vars

\* The end-to-end scenario, scaled to the model: a pool of four with an elite
\* of two, a result buffer as long as the pool, the whole generation budget,
\* error threshold 0 and a single mutator.  A mutator is any strategy that
\* writes its offspring slot, the averaging of two elite parents included.
InitScenario ==
    InitWith({4}, {MaxGen}, {0}, {EliteDen - 1}, {4}, {TRUE}, {<<1>>})

\* train when eliteCount < _count: the write of line 107 stays inside the
\* buffer.
NextScenario ==
    \/ Reserve
    \/ LoopTest
    \/ EvaluateOne
    \/ EvaluateReturn
    \/ ErrorTest
    \/ Weights
    \/ Visit
    \/ Mutate
    \/ NextGeneration
    \/ Extract
    \/ Clone
    \/ Release
    \/ Throw

\* EvaluateReturn by its guard and its target: every EvaluateReturn step is
\* one of these, and the two are enabled in the same states.
EvaluateReturns == pc = "evaluate" /\ joined(toEvaluate) /\ pc' = "ranked"

\* A step of train other than the return of evaluate and a collaborator
\* throwing.
Advance ==
    \/ Reserve
    \/ LoopTest
    \/ EvaluateOne
    \/ ErrorTest
    \/ Weights
    \/ Visit
    \/ Mutate
    \/ NextGeneration
    \/ Extract
    \/ Clone
    \/ Release

\* train is sequential code and the threads of its parallel loops are
\* scheduled: a step that can be taken is eventually taken, unless a
\* collaborator throws first.
SpecScenario ==
    /\ InitScenario
    /\ [][NextScenario]_vars
    /\ WF_vars(Advance)
    /\ WF_pc(EvaluateReturns)

\* One generation of train over every population of up to MaxSortCount
\* candidates: evaluate(env) sorts every sequence of scores.
InitRank ==
    InitWith(1 .. MaxSortCount, {1}, {0}, {EliteDen - 1}, {1}, {TRUE},
             {<<1>>})

SpecRank == InitRank /\ [][NextScenario]_vars

\* ---- the example program: the engine with its two strategies --------------

\* A cell of the weight buffer as a mutator reads it: a cell train never
\* wrote still holds whatever the allocation of line 53 left there.
weightAt(w, k, g) == IF w[k] = Uninit THEN g ELSE w[k]

\* trivial.cpp lines 121-124 (again 126-128 and 159-162):
\*   position = s_range(*s_mt) * total;
\*   for(index = 0; cumulator < position; cumulator += score[index++]);
\* The position is the fraction pnum / pden.  A scan that is about to leave
\* the buffer stops there and returns the index past the end.
RECURSIVE pickLoop(_, _, _, _, _, _)
pickLoop(w, index, cumulator, pnum, pden, g) ==
    IF cumulator * pden < pnum /\ index \in DOMAIN w
    THEN pickLoop(w, index + 1, cumulator + weightAt(w, index, g), pnum,
                  pden, g)
    ELSE index

\* The index picked for the draw u / DrawRes of s_range.
pick(w, u, total, g) == pickLoop(w, 0, 0, u * total, DrawRes, g)

\* The shift without its case for the last elite position.
mateShiftNoLast(index, mate, n) ==
    IF index = mate
    THEN IF mate = 0 THEN 1 ELSE index + 1
    ELSE mate

\* trivial.cpp lines 129-137: the second parent when both draws agree; n is
\* the mutator's size argument, the elite count.
mateShift(index, mate, n) ==
    IF index = mate
    THEN IF mate = 0 THEN 1
         ELSE IF mate = (n - 1) % UIntMod THEN (n - 2) % UIntMod
         ELSE index + 1
    ELSE mate

\* trivial.cpp main: train(..., &mutate, &mate), the ClassicMutator first and
\* the MateMutator last.
mutatorKind(m, n) == IF m = n THEN "mate" ELSE "classic"

\* The parents the mutator of kind k dereferences.
parentsOf(k, index, mate) == IF k = "mate" THEN {index, mate} ELSE {index}

\* The record of a selection: the worker's slot, the indices the two draws
\* gave and the parents dereferenced.  ClassicMutator has one draw and one
\* parent.
pickedBy(pos, k, index, raw, mate) ==
    [slot |-> pos, kind |-> k, index |-> index,
     raw |-> IF k = "mate" THEN raw ELSE index,
     parents |-> parentsOf(k, index, mate)]

\* What the mutator of kind k can leave in the offspring: MateMutator takes a
\* gene of the father or of the mother (lines 138-144), ClassicMutator copies
\* the parent and overwrites a gene with a random letter (lines 163-172).  A
\* parent read past the end of the pool is garbage.
offspringOf(k, index, mate) ==
    IF k = "mate"
    THEN UNION {IF p < count THEN {content[pool[p]]} ELSE Values :
                p \in {index, mate}}
    ELSE Values

\* The example's runs: a pool of 2 or of 4 candidates, an elite of the
\* larger part of the pool or of all of it, one generation.
ExampleCounts == {2, 4}

InitExample ==
    InitWith(ExampleCounts, {1}, {0}, {EliteDen - 1, EliteDen}, {1}, {TRUE},
             {TwoMutators})

\* Part_000 lines 115-148: one of the Threads workers of the parallel loop
\* takes slot pos, runs the cascade on its private generator and enters the
\* chosen mutator, which draws from the program-wide generator *s_mt
\* (trivial.cpp lines 14, 121).
MutateBegin ==
    /\ pc = "mutate"
    /\ Cardinality(active) < Threads
    /\ \E pos \in toMutate \ {a.slot : a \in active} :
       \E draws \in [1 .. (Len(mutators) - 1) -> 0 .. (DrawRes - 1)] :
          active' = active \cup {[slot |-> pos,
                                  applied |-> mutate(mutators, draws, 1)]}
    /\ UNCHANGED <<pc, count, pool, score, reverse, content, args,
                   eliteCount, generation, minimum, totalScore, number,
                   store, toEvaluate, toMutate, cloned, calls, passes,
                   prevBest, lastMutate, result, picked, oob, firstBest,
                   caller>>

\* trivial.cpp lines 119-145 and 157-173: the mutator picks its parents,
\* writes the offspring and returns; the worker's iteration is over.
MutateEnd ==
    /\ pc = "mutate"
    /\ \E a \in active : \E g \in AnyDouble :
       \E u1 \in 0 .. (DrawRes - 1) : \E u2 \in 0 .. (DrawRes - 1) :
          LET k == mutatorKind(a.applied, Len(mutators))
              index == pick(reverse, u1, totalScore, g)
              raw == pick(reverse, u2, totalScore, g)
              mate == mateShift(index, raw, eliteCount)
              parents == parentsOf(k, index, mate)
          IN  /\ \E v \in offspringOf(k, index, mate) :
                    content' = [content EXCEPT ![pool[a.slot]] = v]
              /\ picked' = pickedBy(a.slot, k, index, raw, mate)
              /\ oob' = (oob \/ \E p \in parents : p >= count)
              /\ active' = active \ {a}
              /\ toMutate' = toMutate \ {a.slot}
    /\ calls' = [calls EXCEPT !.mutate = @ + 1]
    /\ UNCHANGED <<pc, count, pool, score, reverse, args, eliteCount,
                   generation, minimum, totalScore, number, store,
                   toEvaluate, cloned, passes, prevBest, lastMutate, result,
                   firstBest, caller>>

\* The same call when parents[index] lies past the end of the pool and the
\* process dies on the garbage pointer.
MutateAbort ==
    /\ pc = "mutate"
    /\ \E a \in active : \E g \in AnyDouble :
       \E u1 \in 0 .. (DrawRes - 1) : \E u2 \in 0 .. (DrawRes - 1) :
          LET k == mutatorKind(a.applied, Len(mutators))
              index == pick(reverse, u1, totalScore, g)
              raw == pick(reverse, u2, totalScore, g)
              mate == mateShift(index, raw, eliteCount)
              parents == parentsOf(k, index, mate)
          IN  /\ \E p \in parents : p >= count
              /\ picked' = pickedBy(a.slot, k, index, raw, mate)
    /\ oob' = TRUE
    /\ pc' = "aborted"
    /\ UNCHANGED <<count, pool, score, reverse, content, args, eliteCount,
                   generation, minimum, totalScore, number, store,
                   toEvaluate, toMutate, cloned, calls, passes, prevBest,
                   lastMutate, result, active, firstBest, caller>>

NextExample ==
    \/ Reserve
    \/ LoopTest
    \/ EvaluateOne
    \/ EvaluateReturn
    \/ ErrorTest
    \/ Weights
    \/ WeightsAbort
    \/ Visit
    \/ MutateBegin
    \/ MutateEnd
    \/ MutateAbort
    \/ NextGeneration
    \/ Extract
    \/ Clone
    \/ Release
    \/ Throw

SpecExample == InitExample /\ [][NextExample]_vars

\* ---- the example's caller: main after train has returned ----------------

\* trivial.cpp line 237 and lines 242-245: store = new Candidate*[POOL_SIZE]
\* is handed to train with size POOL_SIZE, the capacity of the engine; the
\* elite is the smaller part of the pool (0.1 in main).
InitMain ==
    \E n \in ExampleCounts :
        InitWith({n}, {1}, {0}, {EliteDen - 1}, {n}, {TRUE}, {TwoMutators})

\* The index of the loop of lines 251-253 and of the loop of 255-257.
shownNext == Cardinality(caller.shown)
freedNext == Cardinality(caller.freed)

\* Lines 251-253: for(i = 0; i < result && store[i]->data()[0] != '\0'; ++i)
\* prints store[i].  No candidate starts with '\0': reserve and the mutators
\* write letters only.
MainShow ==
    /\ pc = "done"
    /\ caller.phase = "print"
    /\ shownNext < result.number
    /\ caller' = [caller EXCEPT !.shown = @ \cup {shownNext}]
    /\ UNCHANGED <<pc, count, pool, score, reverse, content, args,
                   eliteCount, generation, minimum, totalScore, number,
                   store, toEvaluate, toMutate, cloned, calls, passes,
                   firstBest, prevBest, lastMutate, result, active, picked,
                   oob>>

\* The loop of lines 251-253 is left at i = result.
MainShowEnd ==
    /\ pc = "done"
    /\ caller.phase = "print"
    /\ shownNext >= result.number
    /\ caller' = [caller EXCEPT !.phase = "free"]
    /\ UNCHANGED <<pc, count, pool, score, reverse, content, args,
                   eliteCount, generation, minimum, totalScore, number,
                   store, toEvaluate, toMutate, cloned, calls, passes,
                   firstBest, prevBest, lastMutate, result, active, picked,
                   oob>>

\* Lines 255-257: for(i = 0; i < POOL_SIZE; ++i) delete store[i].  The
\* delete of an entry that holds no candidate either goes unnoticed (here)
\* or ends the process (MainDeleteAbort).
MainDelete ==
    /\ pc = "done"
    /\ caller.phase = "free"
    /\ freedNext < size
    /\ caller' = [caller EXCEPT !.freed = @ \cup {freedNext}]
    /\ UNCHANGED <<pc, count, pool, score, reverse, content, args,
                   eliteCount, generation, minimum, totalScore, number,
                   store, toEvaluate, toMutate, cloned, calls, passes,
                   firstBest, prevBest, lastMutate, result, active, picked,
                   oob>>

\* delete store[i] on a pointer that was never written: undefined behaviour
\* that ends the process.
MainDeleteAbort ==
    /\ pc = "done"
    /\ caller.phase = "free"
    /\ freedNext < size
    /\ store[freedNext] = Uninit
    /\ caller' = [caller EXCEPT !.freed = @ \cup {freedNext}]
    /\ pc' = "aborted"
    /\ UNCHANGED <<count, pool, score, reverse, content, args,
                   eliteCount, generation, minimum, totalScore, number,
                   store, toEvaluate, toMutate, cloned, calls, passes,
                   firstBest, prevBest, lastMutate, result, active, picked,
                   oob>>

\* Lines 258-263: delete[] store and return.
MainExit ==
    /\ pc = "done"
    /\ caller.phase = "free"
    /\ freedNext >= size
    /\ caller' = [caller EXCEPT !.phase = "exit"]
    /\ UNCHANGED <<pc, count, pool, score, reverse, content, args,
                   eliteCount, generation, minimum, totalScore, number,
                   store, toEvaluate, toMutate, cloned, calls, passes,
                   firstBest, prevBest, lastMutate, result, active, picked,
                   oob>>

\* train as main calls it (eliteCount < _count), then the rest of main.
NextMain ==
    \/ Reserve
    \/ LoopTest
    \/ EvaluateOne
    \/ EvaluateReturn
    \/ ErrorTest
    \/ Weights
    \/ Visit
    \/ Mutate
    \/ NextGeneration
    \/ Extract
    \/ Clone
    \/ Release
    \/ Throw
    \/ MainShow
    \/ MainShowEnd
    \/ MainDelete
    \/ MainDeleteAbort
    \/ MainExit

SpecMain == InitMain /\ [][NextMain]_vars

\* ---- properties ---------------------------------------------------------
\* The least score of the candidates on the heap.
MinScore == CHOOSE m \in {evaluate(content[h]) : h \in DOMAIN content} :
                \A h \in DOMAIN content : m <= evaluate(content[h])

\* C1: at every return of evaluate(env) the scores are in ascending order
\* (scores[i] <= scores[i+1] for every adjacent pair) and the value returned
\* into minimum is scores[0].
C1_SortedAfterEvaluate ==
    pc = "ranked" =>
        /\ \A i \in 0 .. (count - 2) : score[i] <= score[i + 1]
        /\ minimum = score[0]

\* A return of evaluate whose sort had to move a candidate to the front.
C1_Witness ==
    /\ pc = "ranked"
    /\ count >= 3
    /\ pool[0] # 1
    /\ score[0] < score[count - 1]

\* C2: at every return of evaluate(env) scores[i] is the score of pool[i]
\* for every i, and pool holds every handle of the population exactly once.
C2_PairsMoveTogether ==
    pc = "ranked" =>
        /\ \A i \in Idx(count) : score[i] = evaluate(content[pool[i]])
        /\ {pool[i] : i \in Idx(count)} = Handles(count)

\* A return of evaluate after the sort exchanged candidates of unequal score.
C2_Witness ==
    /\ pc = "ranked"
    /\ \E i \in Idx(count) : \E j \in Idx(count) :
          /\ i < j
          /\ pool[i] > pool[j]
          /\ score[i] < score[j]

\* C3: when train is over, on whichever path (budget, convergence, or a
\* collaborator that threw), Environment.release has been called exactly once.
C3_ReleaseOnEveryExit ==
    pc \in {"done", "failed"} => calls.release = 1

\* C4: with an elite of at least one, scores[0] at a return of evaluate is
\* not above scores[0] at the previous return of evaluate of the same run.
C4_BestNeverWorse ==
    (pc = "ranked" /\ passes >= 2 /\ eliteCount >= 1) => score[0] <= prevBest

\* A second pass, with recycled slots, whose best score is a strict improvement.
C4_Witness ==
    /\ pc = "ranked"
    /\ passes >= 2
    /\ eliteCount >= 1
    /\ eliteCount < count
    /\ score[0] < prevBest

\* C5: the loop is left only on a generation that has been evaluated and
\* ranked (one evaluation pass per generation, the stopping one included), and
\* then generationsRun >= maxGenerations or scores[0] <= minError holds, with
\* generationsRun <= maxGenerations.
C5_StopAfterEvaluation ==
    pc = "extract" =>
        /\ passes = generation + 1
        /\ generation >= maxGen \/ score[0] <= minErr
        /\ generation <= maxGen

\* C6: a run with maxGenerations = 0 returns generationsRun = 0 and the
\* least score of the population reserve produced, and made no mutate call.
C6_ZeroGenerations ==
    (pc = "done" /\ maxGen = 0) =>
        /\ result.generation = 0
        /\ result.minimum = MinScore
        /\ calls.mutate = 0

\* C7: with minError = +infinity and maxGenerations >= 1 the run makes one
\* evaluation pass, leaves the loop right after it and never recombines.
C7_InfiniteErrorStopsAtOnce ==
    (minErr = Infinity /\ maxGen >= 1) =>
        /\ passes <= 1
        /\ calls.mutate = 0
        /\ pc \notin {"weights", "visit", "mutate"}
        /\ pc = "done" => (passes = 1 /\ result.generation = 0)

\* A finished run of that kind.
C7_Witness ==
    /\ pc = "done"
    /\ minErr = Infinity
    /\ maxGen >= 1
    /\ passes = 1
    /\ calls.evaluate = count

\* C8: with an elite of fewer than two members (a configuration error) no
\* evaluate, visit or mutate call is ever made.
C8_FailFast ==
    EliteCountOf(count, eliteSize) < 2 =>
        /\ calls.evaluate = 0
        /\ calls.visit = 0
        /\ calls.mutate = 0

\* C9: every step of a recombination phase leaves the handle and the content
\* of every elite slot as they were, and the slot a mutator is handed lies in
\* [eliteCount, count).
C9_EliteUntouched ==
    [][pc = "mutate" =>
          /\ \A i \in 0 .. (eliteCount - 1) :
                /\ pool'[i] = pool[i]
                /\ content'[pool[i]] = content[pool[i]]
          /\ pc' = "mutate" =>
                (eliteCount <= lastMutate'.slot /\ lastMutate'.slot < count)
      ]_vars

\* A mutator has just overwritten a slot next to a non-empty elite.
C9_Witness ==
    /\ pc = "mutate"
    /\ eliteCount >= 1
    /\ lastMutate.slot = eliteCount
    /\ content[pool[lastMutate.slot]] # content[pool[0]]

\* C10: the mutators are tried in call order, each one tried making one draw;
\* the mutator applied to a slot is the first one whose threshold exceeds its
\* draw, or the last one (applied with no test) when no earlier one does; one
\* mutator is applied per recycled slot, so that the mutate calls number
\* generationsRun * (count - eliteCount) plus the slots done in the current
\* phase.
C10_Cascade ==
    /\ (pc = "mutate" /\ lastMutate.slot # Uninit) =>
          LET a == lastMutate.applied
              d == lastMutate.draws
              n == Len(mutators)
          IN  /\ a \in 1 .. n
              /\ \A k \in 1 .. (a - 1) : d[k] >= mutators[k]
              /\ a < n => (Len(d) = a /\ d[a] < mutators[a])
              /\ a = n => Len(d) = n - 1
    /\ pc \in {"loop", "evaluate", "ranked", "weights", "visit", "extract",
               "clone", "done"} =>
          calls.mutate = generation * (count - eliteCount)
    /\ pc = "mutate" =>
          calls.mutate = generation * (count - eliteCount)
                         + Cardinality((eliteCount .. (count - 1)) \ toMutate)

\* The fallback was applied after an earlier mutator, which had a chance,
\* lost its draw; it was the last of a generation's mutate calls.
C10_Witness ==
    /\ pc = "mutate"
    /\ Len(mutators) >= 2
    /\ lastMutate.applied = Len(mutators)
    /\ \E k \in 1 .. (Len(mutators) - 1) : mutators[k] > 0
    /\ toMutate = {}
    /\ calls.mutate = count - eliteCount
    /\ calls.mutate >= 2

\* C11: the phases of a generation do not overlap.  Ranking starts (and the
\* weights, the visit and every mutate call come) only after every evaluate
\* call of the generation has returned, and an evaluate call of the next
\* generation starts only after every mutate call of this one has returned.
C11_PhaseOrder ==
    /\ pc \in {"ranked", "weights", "visit", "mutate"} =>
          /\ toEvaluate = {}
          /\ passes = generation + 1
          /\ calls.evaluate = passes * count
          /\ \A i \in Idx(count) : \A j \in Idx(count) :
                 i < j => score[i] <= score[j]
    /\ pc = "mutate" =>
          calls.mutate = generation * (count - eliteCount)
                         + (count - eliteCount) - Cardinality(toMutate)
    /\ pc = "evaluate" =>
          /\ toMutate = {}
          /\ passes = generation
          /\ calls.mutate = generation * (count - eliteCount)
          /\ calls.evaluate = generation * count
                              + count - Cardinality(toEvaluate)

C11_Witness ==
    /\ pc = "evaluate"
    /\ generation >= 1
    /\ calls.mutate >= 1
    /\ toEvaluate # Idx(count)
    /\ toEvaluate # {}

\* C12: in the recombination phase a worker touches only its own slot and
\* the elite prefix: every parent an example mutator dereferences is an
\* elite slot, never a slot that a worker of the phase owns.
C12_ParentsAreElite ==
    picked.slot # Uninit =>
        \A p \in picked.parents : p < eliteCount

\* C13: no generator is drawn from by two workers at once.  The cascade's
\* generator is a local of Trivial::mutate; the mutators draw from *s_mt,
\* so at most one worker may be inside a mutator at a time.
C13_GeneratorNotShared == Cardinality(active) <= 1

\* C14: Environment.reserve is called once per run, for all count slots of
\* the pool, before the first evaluate call, and not again: from the first
\* step of train on the call count is 1 and the pool holds count candidates.
C14_ReserveOnce ==
    /\ pc = "start" => calls.reserve = 0 /\ calls.evaluate = 0
    /\ pc # "start" =>
          /\ calls.reserve = 1
          /\ DOMAIN content = Handles(count)
          /\ {pool[i] : i \in Idx(count)} = Handles(count)

C14_Witness ==
    /\ calls.reserve = 1
    /\ passes >= 2
    /\ calls.evaluate >= 2 * count

\* C15: at the end of a run the returned count is min(eliteCount, size) and
\* store[i] is the clone of the rank-i candidate of the last evaluated
\* generation: its score is the i-th score of that ranking, so the results
\* come in ascending order of score.
C15_ResultsAreRankedElite ==
    pc = "done" =>
        /\ result.number = resultCount(eliteCount, size)
        /\ \A i \in Idx(result.number) :
               /\ store[i] = content[pool[i]]
               /\ score[i] = evaluate(store[i])
               /\ \A j \in Idx(result.number) :
                      i < j => evaluate(store[i]) <= evaluate(store[j])

\* C16: train writes the result buffer only below min(eliteCount, size):
\* it makes no more clones than that, and every slot of the buffer from
\* that index on still holds what the caller left there.
C16_StoreBeyondResultUntouched ==
    LET limit == IF EliteCountOf(count, eliteSize) < size
                 THEN EliteCountOf(count, eliteSize) ELSE size
    IN  /\ calls.clone <= limit
        /\ pc = "clone" => number = limit /\ cloned <= limit
        /\ pc = "done" => result.number = limit /\ calls.clone = limit
        /\ \A i \in Idx(size) : i >= limit => store[i] = Uninit

C16_Witness ==
    /\ pc = "done"
    /\ result.number >= 1
    /\ result.number < size
    /\ store[0] # Uninit
    /\ store[result.number] = Uninit

\* The sum of the k best scores.
RECURSIVE SumOfBest(_)
SumOfBest(k) == IF k = 0 THEN 0 ELSE score[k - 1] + SumOfBest(k - 1)

C18_EliteWithinPool ==
    passes >= 1 /\ pc # "failed" =>
        1 <= eliteCount /\ eliteCount <= count

\* C19: with an elite of two or more MateMutator dereferences two distinct
\* parents: when both draws gave the same index the second parent is the
\* next index, or the previous one when the index is the last elite
\* position; when they differ the second parent is the second draw's index.
C19_TwoDistinctParents ==
    picked.slot # Uninit /\ picked.kind = "mate" /\ eliteCount >= 2 =>
        /\ Cardinality(picked.parents) = 2
        /\ picked.index \in picked.parents
        /\ picked.raw = picked.index =>
              picked.parents =
                  {picked.index, IF picked.index = eliteCount - 1
                                 THEN picked.index - 1
                                 ELSE picked.index + 1}
        /\ picked.raw # picked.index =>
              picked.parents = {picked.index, picked.raw}

C19_Witness ==
    /\ picked.slot # Uninit
    /\ picked.kind = "mate"
    /\ eliteCount >= 2
    /\ picked.raw = picked.index
    /\ picked.index = eliteCount - 1
    /\ picked.parents = {eliteCount - 1, eliteCount - 2}

\* The weight accumulated over the cells below k of the buffer as read.
RECURSIVE WeightBelow(_, _)
WeightBelow(k, g) ==
    IF k = 0 THEN 0
    ELSE weightAt(reverse, k - 1, g) + WeightBelow(k - 1, g)

\* C20: for a draw u in [0, total) the parent chosen is the first index k
\* whose cumulative weight exceeds u: the weight below k is <= u and the
\* weight up to and including k is > u.
C20_FirstIndexExceedingDraw ==
    pc = "mutate" /\ totalScore > 0 =>
        \A u \in 0 .. (DrawRes - 1) : \A g \in AnyDouble :
            LET k == pick(reverse, u, totalScore, g)
            IN  /\ k \in DOMAIN reverse
                /\ WeightBelow(k, g) * DrawRes <= u * totalScore
                /\ u * totalScore < WeightBelow(k + 1, g) * DrawRes

\* The share of the draw range that selects index k: the range [0, total)
\* is cut into totalScore cells of width 1, each sampled at its midpoint.
Share(k, g) ==
    Cardinality({t \in 0 .. (totalScore - 1) :
                    pickLoop(reverse, 0, 0, 2 * t + 1, 2, g) = k})

\* C21: in every generation the share of the draw range that selects rank 0,
\* the most-fit elite member, is at least the share of every other elite
\* rank.
C21_BestRankWeighsMost ==
    pc = "mutate" /\ eliteCount >= 1 =>
        \A g \in AnyDouble : \A k \in 1 .. (eliteCount - 1) :
            Share(0, g) >= Share(k, g)

\* C22: when all elite scores are equal every elite index is selected by an
\* equal share of the draw range, and no index outside the elite by any.
C22_EqualScoresUniform ==
    (/\ pc = "mutate"
     /\ eliteCount >= 1
     /\ \A i \in Idx(eliteCount) : score[i] = score[0]) =>
        \A g \in AnyDouble : \A k \in 0 .. count :
            IF k < eliteCount
            THEN Share(k, g) * eliteCount = totalScore
            ELSE Share(k, g) = 0

\* C23: a mutator whose threshold is 1.0 (DrawRes units) is applied whenever
\* the cascade draws at its level, whatever the draw, and no mutator listed
\* after it is ever applied.
C23_CertainStrategy ==
    lastMutate.slot # Uninit =>
        \A k \in 1 .. Len(mutators) :
            mutators[k] = DrawRes =>
                /\ lastMutate.applied <= k
                /\ Len(lastMutate.draws) >= k => lastMutate.applied = k

C23_Witness ==
    /\ lastMutate.slot # Uninit
    /\ Len(mutators) = 2
    /\ mutators[1] = DrawRes
    /\ lastMutate.draws = <<DrawRes - 1>>
    /\ lastMutate.applied = 1

C25_EvaluateOncePerCandidate ==
    /\ pc = "evaluate" =>
          /\ calls.evaluate = passes * count
                              + Cardinality(Idx(count) \ toEvaluate)
          /\ \A i \in Idx(count) \ toEvaluate :
                 score[i] = evaluate(content[pool[i]])
    /\ pc \in {"ranked", "weights", "visit"} =>
          /\ calls.evaluate = passes * count
          /\ \A i \in Idx(count) : score[i] = evaluate(content[pool[i]])
    /\ pc = "failed" =>
          /\ passes * count <= calls.evaluate
          /\ calls.evaluate < (passes + 1) * count

C25_Witness ==
    /\ pc = "evaluate"
    /\ generation = 1
    /\ Cardinality(toEvaluate) = 1
    /\ calls.evaluate = 2 * count - 1

\* C26: in a completed run every clone of the result extraction is made
\* before release: release is called only once the clones are all made, it
\* is the last call of the run, and while clones are being made the pool has
\* not been released.
C26_ClonesBeforeRelease ==
    /\ pc = "clone" => calls.release = 0
    /\ calls.release # 0 =>
          /\ pc = "done"
          /\ calls.release = 1
          /\ calls.clone = result.number
          /\ \A i \in Idx(result.number) : store[i] = content[pool[i]]

C26_Witness ==
    /\ pc = "done"
    /\ calls.release = 1
    /\ calls.clone = 2
    /\ passes >= 1

\* C27: every recombination phase is followed by an evaluation pass before
\* the run finalizes: when extraction starts after at least one
\* recombination, one more pass than recombinations has been made and every
\* candidate of the pool holds the score of its present content.
C27_OffspringEvaluated ==
    pc \in {"extract", "clone", "done"} /\ generation >= 1 =>
        /\ passes = generation + 1
        /\ \A i \in Idx(count) : score[i] = evaluate(content[pool[i]])

\* C28: the scenario run ends, and when it ends normally the best score
\* returned is at most the best score of generation 0 and two results are
\* returned.
C28_Scenario ==
    /\ <>(pc \in {"done", "failed"})
    /\ [](pc = "done" =>
            /\ eliteCount = 2
            /\ result.minimum <= firstBest
            /\ result.number = 2)

C28_Witness ==
    /\ pc = "done"
    /\ result.generation = maxGen
    /\ result.minimum < firstBest
    /\ result.number = 2

\* The candidates are all scored and evaluate(env) is about to sort them.
BeforeSort == pc = "evaluate" /\ joined(toEvaluate)

\* C29: the sort ends for every population and every score sequence, equal
\* scores included: on every sub-range lo < hi of the scores, partition
\* returns p with lo <= p < hi, so that [lo, p] and [p + 1, hi] are both
\* strictly smaller than [lo, hi]; and so does every partition the sort
\* makes on the way.
C29_PartitionSplits ==
    BeforeSort =>
        LET st == [score |-> score, pool |-> pool]
        IN  /\ \A lo \in Idx(count) : \A hi \in Idx(count) :
                  lo < hi =>
                      LET p == partition(st, lo, hi).p
                      IN  /\ lo <= p
                          /\ p < hi
                          /\ p - lo + 1 < hi - lo + 1
                          /\ hi - p < hi - lo + 1
            /\ \A l \in qsortLevels(st, 0, (count - 1) % UIntMod) :
                  l.lo <= l.p /\ l.p < l.hi

\* A population of three or more with two equal scores, about to be sorted,
\* whose first partition exchanges candidates and splits past position 0.
C29_Witness ==
    /\ BeforeSort
    /\ count >= 3
    /\ \E i \in Idx(count) : \E j \in Idx(count) :
          i < j /\ score[i] = score[j]
    /\ LET r == partition([score |-> score, pool |-> pool], 0, count - 1)
       IN  r.p > 0 /\ r.score # score

\* Number of positions of the range <<lo, hi>>.
RangeSize(r) == r[2] - r[1] + 1

\* C30: at every level of the sort the sub-range sorted first is not larger
\* than the one sorted second, the two are [lo, p] and [p + 1, hi], and the
\* pivot is the first element of the range: the partition leaves nothing
\* above that element in [lo, p] and nothing below it in [p + 1, hi].
C30_SmallerFirst ==
    BeforeSort =>
        \A l \in qsortLevels([score |-> score, pool |-> pool], 0,
                              (count - 1) % UIntMod) :
            /\ RangeSize(l.first) <= RangeSize(l.second)
            /\ {l.first, l.second} = {<<l.lo, l.p>>, <<l.p + 1, l.hi>>}
            /\ \A k \in l.lo .. l.p : l.split[k] <= l.head
            /\ \A k \in (l.p + 1) .. l.hi : l.split[k] >= l.head

\* A sort with a level whose right part is the smaller and goes first, and a
\* level whose left part is the smaller and goes first.
C30_Witness ==
    /\ BeforeSort
    /\ LET ls == qsortLevels([score |-> score, pool |-> pool], 0,
                             (count - 1) % UIntMod)
       IN  /\ \E l \in ls : /\ l.first = <<l.p + 1, l.hi>>
                             /\ RangeSize(l.first) < RangeSize(l.second)
           /\ \E l \in ls : /\ l.first = <<l.lo, l.p>>
                             /\ RangeSize(l.first) < RangeSize(l.second)

\* C31: in every generation each weight-buffer cell at an index in
\* [0, eliteCount) has been written from that generation's elite scores
\* before a mutator reads it, and the total handed to the mutators is the
\* sum of those cells.
C31_WeightsWritten ==
    pc = "mutate" /\ eliteCount >= 1 =>
        /\ \A k \in Idx(eliteCount) : reverse[k] # Uninit
        /\ {reverse[k] : k \in Idx(eliteCount)}
               \subseteq {score[i] : i \in Idx(eliteCount)}
        /\ \A g \in AnyDouble : totalScore = WeightBelow(eliteCount, g)

\* C32: in a run with 1 <= eliteCount <= count no write of the engine falls
\* outside the arrays allocated for count entries; in particular the writes
\* of the weight loop stay inside the weight buffer.
C32_IndicesInBounds ==
    eliteCount >= 1 /\ eliteCount <= count => ~oob

\* C33: from the return of reserve on, as long as no write has left the
\* arrays, the pool holds every handle reserve produced exactly once: the
\* sort only permutes the handles and a mutator only changes the content of
\* a candidate, so that release is handed exactly those count handles.
C33_HandlesConserved ==
    pc # "start" /\ ~oob =>
        /\ {pool[i] : i \in Idx(count)} = Handles(count)
        /\ \A i \in Idx(count) : \A j \in Idx(count) :
              pool[i] = pool[j] => i = j

\* A run of three or more candidates that was ranked out of its reserved
\* order, recombined, and released.
C33_Witness ==
    /\ pc = "done"
    /\ ~oob
    /\ calls.release = 1
    /\ calls.mutate >= 1
    /\ count >= 3
    /\ \E i \in Idx(count) : pool[i] # i + 1

\* C34: a run with maxGen >= 1 and an elite of at least one that ends
\* normally, by convergence or by the budget, and in which no write has left
\* the arrays, returns as bestScore the score of the candidate at pool[0] at
\* extraction time, which is the score of store[0] when a result is returned.
C34_BestIsFirstOfPool ==
    pc = "done" /\ maxGen >= 1 /\ eliteCount >= 1 /\ ~oob =>
        /\ result.minimum = evaluate(content[pool[0]])
        /\ result.number >= 1 => result.minimum = evaluate(store[0])

\* A run that ended on its budget right after a recombination and returned
\* a result.
C34_Witness ==
    /\ pc = "done"
    /\ ~oob
    /\ eliteCount >= 1
    /\ result.generation = maxGen
    /\ maxGen >= 1
    /\ calls.mutate >= 1
    /\ result.number >= 1
    /\ result.minimum > 0

\* C35: with an elite of two or more and the weight buffer written inside
\* its bounds, for every draw and whatever the never-written cell of the
\* buffer holds, the index ClassicMutator computes and the index and mate
\* MateMutator computes lie in [0, eliteCount).
C35_ParentIndicesInElite ==
    pc = "mutate" /\ eliteCount >= 2 /\ ~oob =>
        \A g \in AnyDouble :
        \A u1 \in 0 .. (DrawRes - 1) : \A u2 \in 0 .. (DrawRes - 1) :
            LET index == pick(reverse, u1, totalScore, g)
                mate == mateShift(index, pick(reverse, u2, totalScore, g),
                                  eliteCount)
            IN  /\ index \in Idx(eliteCount)
                /\ mate \in Idx(eliteCount)

\* C36: after train has returned, main reads and frees only entries of the
\* result buffer at indices below the returned count, entries that train
\* wrote.
C36_CallerReliesOnCount ==
    \A i \in caller.shown \cup caller.freed :
        /\ i < result.number
        /\ store[i] # Uninit

\* C37: for every sub-range lo < hi, when partition returns p every score
\* in [lo, p] is <= every score in [p + 1, hi], the scans have read no
\* index outside [lo, hi] (lo - 1 wraps when lo = 0), and the positions
\* outside [lo, hi] hold what they held.
C37_PartitionPostcondition ==
    BeforeSort =>
        \A lo \in Idx(count) : \A hi \in Idx(count) :
            lo < hi =>
                LET st == [score |-> score, pool |-> pool]
                    r == partition(st, lo, hi)
                    reads == partitionReads(st, (lo - 1) % UIntMod,
                                            (hi + 1) % UIntMod, score[lo])
                IN  /\ \A a \in lo .. r.p : \A b \in (r.p + 1) .. hi :
                          r.score[a] <= r.score[b]
                    /\ reads \subseteq lo .. hi
                    /\ \A k \in Idx(count) \ (lo .. hi) :
                          r.score[k] = score[k] /\ r.pool[k] = pool[k]

\* A population of three or more whose partition of the range from 0 to the
\* last position but one exchanges candidates, while the position left out
\* holds a score below the pivot.
C37_Witness ==
    /\ BeforeSort
    /\ count >= 3
    /\ score[count - 1] < score[0]
    /\ partition([score |-> score, pool |-> pool], 0, count - 2).score
          # score

====
